---------------------------- MODULE Spec2Model ----------------------------
(***************************************************************************)
(* Model of my-chatbot/chatProcessManager.js: the ChatProcessManager that  *)
(* keeps one persistent PythonShell worker per chat id.                    *)
(*                                                                         *)
(* The file holds two versions of the class.  `variant' selects one:       *)
(*   1  lines   1-209: getChatProcess launches inline, sendMessage has an  *)
(*                     'end' handler;                                      *)
(*   2  lines 210-383: initializeChatProcess (pre-warm) does the launch,   *)
(*                     getChatProcess delegates to it, sendMessage has no  *)
(*                     'end' handler.                                      *)
(*                                                                         *)
(* One action is one run-to-completion step of the Node event loop: a call *)
(* up to its first pending await, or one event/timer callback together     *)
(* with the promise continuations it releases.                             *)
(***************************************************************************)
EXTENDS Integers, Sequences, FiniteSets, TLC

(* ------------------------------ bounds --------------------------------- *)
\* A scope bounds one specification: the chat ids callers use, the
\* PythonShell instances constructed, the sendMessage calls made, the
\* messages one call buffers and the last instant of the clock; `noise' is
\* the number of noise lines on stderr that a call's record counts and
\* `calls' the last instant at which sendMessage, getChatProcess and
\* initializeChatProcess are called.
Scope(c, p, d, b, t) ==
    [chats |-> c, procs |-> p, disps |-> d, bufs |-> b, time |-> t, noise |-> 0,
     calls |-> t]

MaxProcs    == 3      \* records for PythonShell instances
MaxDispatch == 2      \* records for sendMessage calls
MaxRequests == 3      \* POST /api/chat requests
MaxOutput   == 3      \* lines a one-shot worker prints before it exits

(* ------------------------- program constants --------------------------- *)
\* Durations are in units of 30 s.
HandshakeTimeout == 1      \* setTimeout(..., 30000)
DispatchTimeout  == 2      \* setTimeout(..., 60000)

ProcIds == 1..MaxProcs
DispIds == 1..MaxDispatch
ReqIds  == 1..MaxRequests
NoTimer == -1

(* ------------------------- worker messages ----------------------------- *)
\* A parsed JSON line from the worker's stdout (mode: 'json').  A field is
\* Absent, the empty string, or a non-empty string.
Absent == "absent"

Msg(st, r, e) == [status |-> st, response |-> r, error |-> e]

Ready     == Msg("ready", Absent, Absent)
RespX     == Msg(Absent, "X", Absent)
RespEmpty == Msg(Absent, "", Absent)
ErrE      == Msg(Absent, Absent, "E")
RespErr   == Msg(Absent, "X", "E")

Messages == {Ready, RespX, RespEmpty, ErrE, RespErr}

\* JavaScript truthiness of a field value.
Truthy(v) == v # Absent /\ v # ""

VARIABLES
    variant,     \* which version of the class is running
    maxProcesses,   \* this.maxProcesses
    processTimeout, \* this.processTimeout
    now,         \* Date.now()
    processes,   \* this.processes: the Map, as a sequence in insertion order
    procs,       \* every PythonShell ever constructed, by spawn order
    nproc,       \* number of PythonShell instances constructed
    disp,        \* every sendMessage call, by call order
    ndisp,       \* number of sendMessage calls
    web          \* the POST /api/chat requests of the Express server

vars == <<variant, maxProcesses, processTimeout, now, processes, procs, nproc,
          disp, ndisp, web>>

\* The state of the manager.
manager == <<variant, maxProcesses, processTimeout, now, processes, procs, nproc,
             disp, ndisp>>

\* The fields no method assigns after the constructor.
config == <<variant, maxProcesses, processTimeout>>

\* A PythonShell that has not been constructed yet.
NoProc == [chat |-> 0, hs |-> "none", hsTimer |-> NoTimer, onceMsg |-> FALSE,
           onceErr |-> FALSE, caller |-> 0, ended |-> FALSE, endCalls |-> 0]

\* A sendMessage call that has not been made yet.
NoDisp == [chat |-> 0, proc |-> 0, state |-> "none", kind |-> "", val |-> "",
           timer |-> NoTimer, msgH |-> FALSE, errH |-> FALSE, errorL |-> FALSE,
           endH |-> FALSE, buf |-> <<>>, errorOccurred |-> FALSE,
           sent |-> FALSE, answered |-> FALSE, noise |-> 0]

\* The promise of the one-shot chatHandler's script run, before the run:
\* `file' is 1 for api/chat.js (60 s, hasResponded) and 2 for its 30 s
\* version, promise/kind/val the state of the promise, pyshell the worker.
NoRun == [file |-> 0, promise |-> "none", kind |-> "", val |-> "",
          hasResponded |-> FALSE, timeoutId |-> "none", pyshell |-> "none",
          outputBuffer |-> <<>>]

\* A POST /api/chat request that has not arrived yet.  `route' is the place
\* of the route's async function ("direct": chatHandler was called without
\* the route), chatHandler and timeoutPromise the two promises of its race,
\* responses the bodies written to res in order, error the message of the
\* error thrown by the route's own test of the body, run the handler's
\* script run.
NoRequest == [route |-> "none", chatHandler |-> "none", timeoutPromise |-> "none",
              responses |-> <<>>, error |-> "", run |-> NoRun]

\* The constructor.  The limit of 10 processes and the idle time of 30 min
\* (variant 1) or 10 min (variant 2) are scaled down to `limit' processes
\* and `idle' units, with DispatchTimeout < idle as in the source.
Construct(limit, idle) ==
    /\ variant \in {1, 2}
    /\ maxProcesses = limit
    /\ processTimeout = idle
    /\ now = 0
    /\ processes = <<>>
    /\ procs = [p \in ProcIds |-> NoProc]
    /\ nproc = 0
    /\ disp = [d \in DispIds |-> NoDisp]
    /\ ndisp = 0
    /\ web = [r \in ReqIds |-> NoRequest]

(* --------------------------- the Map ----------------------------------- *)
\* Index of chatId's entry in the Map, 0 if there is none.
MapIndex(reg, chatId) ==
    IF \E i \in 1..Len(reg) : reg[i].chatId = chatId
    THEN CHOOSE i \in 1..Len(reg) : reg[i].chatId = chatId
    ELSE 0

MapHas(reg, chatId) == MapIndex(reg, chatId) # 0

\* Map.prototype.set: an existing key keeps its position.
MapSet(reg, chatId, p, t) ==
    LET e == [chatId |-> chatId, process |-> p, lastUsed |-> t]
        i == MapIndex(reg, chatId)
    IN  IF i = 0 THEN Append(reg, e) ELSE [reg EXCEPT ![i] = e]

\* Mutant of AtCapacity: the limit test with > in place of >=.
AtCapacityStrict == Len(processes) > maxProcesses

\* this.processes.size >= this.maxProcesses
AtCapacity == Len(processes) >= maxProcesses

\* Worker p is the process of some entry of the Map.
Registered(p) == \E i \in 1..Len(processes) : processes[i].process = p

\* Map.prototype.delete.
MapDelete(reg, chatId) == SelectSeq(reg, LAMBDA e : e.chatId # chatId)

(* ----------------------- launching a worker ----------------------------- *)
\* new PythonShell(...) followed by the handshake promise's executor: the
\* 30 s timer is armed and the once('message') / once('error') listeners are
\* attached.  `caller' is the sendMessage call awaiting the launch (0: none).
\* onceMsg and onceErr record a once-listener of a pending handshake: one
\* left behind by a settled handshake can only clear a dead timer and settle
\* a settled promise, and is dropped when the promise settles.
Spawn(chatId, caller) ==
    [chat |-> chatId, hs |-> "pending", hsTimer |-> now + HandshakeTimeout,
     onceMsg |-> TRUE, onceErr |-> TRUE, caller |-> caller, ended |-> FALSE,
     endCalls |-> 0]

\* The worker's stdin is closed: the process has ended or end() was called.
Closed(p) == procs[p].ended \/ procs[p].endCalls > 0

(* --------------------- sendMessage: the dispatch ----------------------- *)
\* Mutant of StartDispatch: the catch block of send() does not clear the
\* 60 s timer.
StartDispatchKeepsTimer(r, p, throws) ==
    [r EXCEPT !.proc = p,
              !.msgH = TRUE, !.errH = TRUE, !.errorL = TRUE,
              !.endH = (variant = 1),
              !.timer = now + DispatchTimeout,
              !.state = IF throws THEN "rejected" ELSE "sent",
              !.kind = IF throws THEN "SendFailure" ELSE "",
              !.sent = ~throws]

\* Mutant of StartDispatch: the 60 s timer is not armed.
StartDispatchNoTimer(r, p, throws) ==
    [r EXCEPT !.proc = p,
              !.msgH = TRUE, !.errH = TRUE, !.errorL = TRUE,
              !.endH = (variant = 1),
              !.timer = NoTimer,
              !.state = IF throws THEN "rejected" ELSE "sent",
              !.kind = IF throws THEN "SendFailure" ELSE "",
              !.sent = ~throws]

\* The executor of sendMessage's promise on worker p: the 60 s timer is
\* armed, the four listeners are attached (the 'end' listener in variant 1
\* only) and the message is written; a throwing send() clears the timer and
\* rejects, leaving the listeners attached.
StartDispatch(r, p, throws) ==
    [r EXCEPT !.proc = p,
              !.msgH = TRUE, !.errH = TRUE, !.errorL = TRUE,
              !.endH = (variant = 1),
              !.timer = IF throws THEN NoTimer ELSE now + DispatchTimeout,
              !.state = IF throws THEN "rejected" ELSE "sent",
              !.kind = IF throws THEN "SendFailure" ELSE "",
              !.sent = ~throws]

\* Mutant of Settle: a later resolve()/reject() overwrites the outcome, as
\* with a plain callback in place of the promise.
SettleAgain(r, state, kind, val) ==
    [r EXCEPT !.state = state, !.kind = kind, !.val = val]

\* resolve()/reject() of a promise: only the first call has an effect.
Settle(r, state, kind, val) ==
    IF r.state = "sent"
    THEN [r EXCEPT !.state = state, !.kind = kind, !.val = val]
    ELSE r

\* A sendMessage call whose getChatProcess threw: the promise was never
\* created, the call rejects with 'Failed to get Python process: ...'.
FailedToGet(r, kind) ==
    [r EXCEPT !.state = "rejected", !.kind = kind]

\* Chat ids are opaque: callers take them in order of first use.
UsedChats == {procs[p].chat : p \in ProcIds} \cup {disp[d].chat : d \in DispIds}
Callable(chatId) == chatId \in UsedChats \/ chatId - 1 \in UsedChats \cup {0}

\* sendMessage(chatId, message), up to its first pending await.
SendMessage(B, chatId) ==
    /\ Callable(chatId)
    /\ ndisp < B.disps
    /\ now <= B.calls
    /\ LET d == ndisp + 1
           r == [NoDisp EXCEPT !.chat = chatId]
           i == MapIndex(processes, chatId)
       IN  /\ ndisp' = d
           /\ IF i # 0
              THEN \* existing process: refreshed and used at once
                   \E throws \in BOOLEAN :
                      /\ throws => Closed(processes[i].process)
                      /\ processes' = [processes EXCEPT ![i].lastUsed = now]
                      /\ disp' = [disp EXCEPT
                                    ![d] = StartDispatch(r, processes[i].process, throws)]
                      /\ UNCHANGED <<procs, nproc>>
              ELSE IF AtCapacity
              THEN /\ disp' = [disp EXCEPT ![d] = FailedToGet(r, "Capacity")]
                   /\ UNCHANGED <<processes, procs, nproc>>
              ELSE /\ nproc < B.procs
                   /\ nproc' = nproc + 1
                   /\ procs' = [procs EXCEPT ![nproc + 1] = Spawn(chatId, d)]
                   /\ disp' = [disp EXCEPT ![d] = [r EXCEPT !.state = "launching"]]
                   /\ UNCHANGED processes
    /\ UNCHANGED <<config, web, now>>

\* getChatProcess(chatId) called on its own (resolve without a dispatch).
\* The capacity error changes nothing.
GetChatProcess(B, chatId) ==
    /\ Callable(chatId)
    /\ now <= B.calls
    /\ LET i == MapIndex(processes, chatId)
       IN  IF i # 0
           THEN /\ processes' = [processes EXCEPT ![i].lastUsed = now]
                /\ UNCHANGED <<procs, nproc>>
           ELSE IF AtCapacity
           THEN UNCHANGED <<processes, procs, nproc>>
           ELSE /\ nproc < B.procs
                /\ nproc' = nproc + 1
                /\ procs' = [procs EXCEPT ![nproc + 1] = Spawn(chatId, 0)]
                /\ UNCHANGED processes
    /\ UNCHANGED <<config, web, now, disp, ndisp>>

\* initializeChatProcess(chatId) called on its own (pre-warm, variant 2):
\* there is no look-up of an existing entry before the spawn.
InitializeChatProcess(B, chatId) ==
    /\ variant = 2
    /\ Callable(chatId)
    /\ now <= B.calls
    /\ IF AtCapacity
       THEN UNCHANGED <<procs, nproc>>
       ELSE /\ nproc < B.procs
            /\ nproc' = nproc + 1
            /\ procs' = [procs EXCEPT ![nproc + 1] = Spawn(chatId, 0)]
    /\ UNCHANGED <<config, web, now, processes, disp, ndisp>>

(* ------------------ settling the launch handshake ---------------------- *)
\* The handshake promise of worker p resolves: the code after the await
\* stores the entry, and an awaiting sendMessage goes on to its dispatch.
LaunchResolved(p) ==
    LET c == procs[p].chat
        d == procs[p].caller
    IN  /\ processes' = MapSet(processes, c, p, now)
        /\ disp' = IF d = 0 THEN disp
                   ELSE [disp EXCEPT ![d] = StartDispatch(disp[d], p, FALSE)]

\* The handshake promise of worker p rejects: getChatProcess throws, and so
\* does an awaiting sendMessage.  Nothing is stored, nothing is terminated.
LaunchRejected(p, kind) ==
    LET d == procs[p].caller
    IN  /\ processes' = processes
        /\ disp' = IF d = 0 THEN disp
                   ELSE [disp EXCEPT ![d] = FailedToGet(disp[d], kind)]

(* ------------------------ sendMessage's listeners ---------------------- *)
\* response && (response.response || response.error)
Replies(m) == Truthy(m.response) \/ Truthy(m.error)

\* The promise of call r is pending.  Once it is settled, outputBuffer and
\* errorOccurred are dead locals and its timer is cleared or has fired: the
\* listeners still run, but the record keeps only what can be read again.
Pending(r) == r.state = "sent"

\* Mutant of MessageHandler: every message is pushed on outputBuffer and
\* none settles the call.
MessageHandlerBuffersAll(r, m) ==
    IF ~Pending(r) THEN r ELSE [r EXCEPT !.buf = Append(@, m)]

\* Mutant of MessageHandler: the response field is looked at before the
\* error field.
MessageHandlerResponseFirst(r, m) ==
    IF ~Pending(r) THEN r
    ELSE IF Replies(m)
    THEN LET cleared == [r EXCEPT !.timer = NoTimer]
         IN  IF Truthy(m.response)
             THEN Settle(cleared, "resolved", "Response", m.response)
             ELSE Settle(cleared, "rejected", "WorkerError", m.error)
    ELSE [r EXCEPT !.buf = Append(@, m)]

\* messageHandler.
MessageHandler(r, m) ==
    IF ~Pending(r) THEN r
    ELSE IF Replies(m)
    THEN LET cleared == [r EXCEPT !.timer = NoTimer]
         IN  IF Truthy(m.error)
             THEN Settle(cleared, "rejected", "WorkerError", m.error)
             ELSE Settle(cleared, "resolved", "Response", m.response)
    ELSE [r EXCEPT !.buf = Append(@, m)]

\* A stderr line, as the set of noise markers it includes.
NoiseMarkers == {"Batches:", "it/s]", "INFO"}
StderrLines  == {{}, {"Batches:"}, {"it/s]"}, {"INFO"}}

\* Mutant of ErrorHandler: every stderr line is taken for an error.
ErrorHandlerAnyLine(r, line) ==
    IF Pending(r) THEN [r EXCEPT !.errorOccurred = TRUE] ELSE r

\* errorHandler (the 'stderr' listener).
ErrorHandler(r, line) ==
    IF Pending(r) /\ line \cap NoiseMarkers = {}
    THEN [r EXCEPT !.errorOccurred = TRUE]
    ELSE r

\* Mutant of EndHandler: the response field of the last buffered message is
\* looked at before its error field.
EndHandlerResponseFirst(r, err) ==
    LET off == [r EXCEPT !.timer = NoTimer, !.msgH = FALSE, !.errH = FALSE]
    IN  IF err \/ r.errorOccurred
        THEN Settle(off, "rejected", "EndError", "")
        ELSE IF Len(r.buf) = 0
        THEN Settle(off, "rejected", "NoOutput", "")
        ELSE LET result == r.buf[Len(r.buf)]
             IN  IF Truthy(result.response)
                 THEN Settle(off, "resolved", "Response", result.response)
                 ELSE IF Truthy(result.error)
                 THEN Settle(off, "rejected", "WorkerError", result.error)
                 ELSE Settle(off, "rejected", "NoValidResponse", "")

\* endHandler (variant 1).
EndHandler(r, err) ==
    LET off == [r EXCEPT !.timer = NoTimer, !.msgH = FALSE, !.errH = FALSE]
    IN  IF err \/ r.errorOccurred
        THEN Settle(off, "rejected", "EndError", "")
        ELSE IF Len(r.buf) = 0
        THEN Settle(off, "rejected", "NoOutput", "")
        ELSE LET result == r.buf[Len(r.buf)]
             IN  IF Truthy(result.error)
                 THEN Settle(off, "rejected", "WorkerError", result.error)
                 ELSE IF Truthy(result.response)
                 THEN Settle(off, "resolved", "Response", result.response)
                 ELSE Settle(off, "rejected", "NoValidResponse", "")

(* --------------------------- worker events ----------------------------- *)
\* Worker p can still emit an event.
Emits(p) ==
    /\ procs[p].chat # 0
    /\ ~procs[p].ended

\* A message of the reply shapes: it has a response or an error field.
IsReply(m) == m.response # Absent \/ m.error # Absent

\* The worker reads its stdin in order: the call whose message worker p's
\* next reply answers, 0 if every message written to p has had its reply.
Owed(p) == {d \in DispIds : disp[d].proc = p /\ disp[d].sent /\ ~disp[d].answered}
Answering(p) == IF Owed(p) = {} THEN 0
                ELSE CHOOSE d \in Owed(p) : \A o \in Owed(p) : d <= o

\* The records ds once worker p has emitted m: a reply answers the oldest
\* message still owed one.
Answer(ds, p, m) ==
    IF IsReply(m) /\ Answering(p) # 0
    THEN [ds EXCEPT ![Answering(p)].answered = TRUE]
    ELSE ds

\* Mutant of OnMessage: the 'message' listeners hang on one emitter shared
\* by all workers.
OnMessageShared(p, m) ==
    [d \in DispIds |->
        IF disp[d].msgH THEN MessageHandler(disp[d], m) ELSE disp[d]]

\* The calls' records after the listeners attached to worker p have run.
OnMessage(p, m) ==
    [d \in DispIds |->
        IF disp[d].proc = p /\ disp[d].msgH
        THEN MessageHandler(disp[d], m) ELSE disp[d]]

OnStderr(p, line) ==
    [d \in DispIds |->
        IF disp[d].proc = p /\ disp[d].errH
        THEN ErrorHandler(disp[d], line) ELSE disp[d]]

OnError(p) ==
    [d \in DispIds |->
        IF disp[d].proc = p /\ disp[d].errorL
        THEN [disp[d] EXCEPT !.errorOccurred = @ \/ Pending(disp[d])]
        ELSE disp[d]]

OnEnd(p, err) ==
    [d \in DispIds |->
        IF disp[d].proc = p /\ disp[d].endH
        THEN EndHandler(disp[d], err) ELSE disp[d]]

\* Mutant of HandshakeWon: on('message') in place of once('message'), so
\* that a ready status after another first message still wins.
HandshakeWonAny(p, m) == m.status = "ready"

\* The once('message') listener of the handshake runs and sees a ready
\* status.
HandshakeWon(p, m) == procs[p].onceMsg /\ m.status = "ready"

\* Mutant of WorkerMessage: the handshake is a plain callback, so that a
\* ready status that comes after the launch has failed still stores the
\* worker.
WorkerMessageResolvesLate(B, p, m) ==
    /\ Emits(p)
    /\ \A d \in DispIds :
          disp[d].proc = p /\ disp[d].msgH /\ Pending(disp[d]) /\ ~Replies(m)
              => Len(disp[d].buf) < B.bufs
    /\ LET won == m.status = "ready" /\ procs[p].hs \in {"pending", "failed"}
           after == [procs[p] EXCEPT
                        !.onceMsg = FALSE,
                        !.onceErr = IF won THEN FALSE ELSE @,
                        !.hsTimer = IF won THEN NoTimer ELSE @,
                        !.hs = IF won THEN "ok" ELSE @]
       IN  /\ procs' = [procs EXCEPT ![p] = after]
           /\ IF won
              THEN LaunchResolved(p)
              ELSE /\ processes' = processes
                   /\ disp' = Answer(OnMessage(p, m), p, m)
    /\ UNCHANGED <<config, web, now, nproc, ndisp>>

\* Worker p emits 'message' m.
WorkerMessage(B, p, m) ==
    /\ Emits(p)
    /\ \A d \in DispIds :
          disp[d].proc = p /\ disp[d].msgH /\ Pending(disp[d]) /\ ~Replies(m)
              => Len(disp[d].buf) < B.bufs
    /\ LET won == HandshakeWon(p, m)
           after == [procs[p] EXCEPT
                        !.onceMsg = FALSE,
                        !.onceErr = IF won THEN FALSE ELSE @,
                        !.hsTimer = IF won THEN NoTimer ELSE @,
                        !.hs = IF won /\ @ = "pending" THEN "ok" ELSE @]
       IN  /\ procs' = [procs EXCEPT ![p] = after]
           /\ IF won /\ procs[p].hs = "pending"
              THEN LaunchResolved(p)
              ELSE /\ processes' = processes
                   /\ disp' = Answer(OnMessage(p, m), p, m)
    /\ UNCHANGED <<config, web, now, nproc, ndisp>>

\* The records ds with the noise lines counted that errorHandler has been
\* given while its call was pending (console.log('Python stderr:', ...)).
Logged(B, ds, p, line) ==
    [d \in DispIds |->
        IF ds[d].proc = p /\ ds[d].errH /\ Pending(ds[d])
                          /\ line \cap NoiseMarkers # {} /\ ds[d].noise < B.noise
        THEN [ds[d] EXCEPT !.noise = @ + 1] ELSE ds[d]]

\* Worker p writes a line to stderr while a 'stderr' listener is attached.
WorkerStderr(B, p, line) ==
    /\ Emits(p)
    /\ \E d \in DispIds : disp[d].proc = p /\ disp[d].errH
    /\ disp' = Logged(B, OnStderr(p, line), p, line)
    /\ UNCHANGED <<config, web, now, processes, procs, nproc, ndisp>>

\* Worker p emits 'error' while an 'error' listener is attached.
WorkerError(p) ==
    /\ Emits(p)
    /\ procs[p].onceErr \/ \E d \in DispIds : disp[d].proc = p /\ disp[d].errorL
    /\ LET lost == procs[p].onceErr /\ procs[p].hs = "pending"
           after == [procs[p] EXCEPT
                        !.onceErr = FALSE,
                        !.onceMsg = IF lost THEN FALSE ELSE @,
                        !.hsTimer = IF procs[p].onceErr THEN NoTimer ELSE @,
                        !.hs = IF lost THEN "failed" ELSE @]
       IN  /\ procs' = [procs EXCEPT ![p] = after]
           /\ IF lost
              THEN LaunchRejected(p, "LaunchError")
              ELSE /\ processes' = processes
                   /\ disp' = OnError(p)
    /\ UNCHANGED <<config, web, now, nproc, ndisp>>

\* Worker p's process ends (with an error when err).
WorkerEnd(p, err) ==
    /\ procs[p].chat # 0
    /\ ~procs[p].ended
    /\ procs' = [procs EXCEPT ![p].ended = TRUE]
    /\ disp' = OnEnd(p, err)
    /\ UNCHANGED <<config, web, now, processes, nproc, ndisp>>

(* ------------------------------ timers --------------------------------- *)
\* The handshake's 30 s timer fires.
HandshakeTimer(p) ==
    /\ procs[p].hsTimer # NoTimer
    /\ now >= procs[p].hsTimer
    /\ procs' = [procs EXCEPT ![p].hsTimer = NoTimer,
                              ![p].onceMsg = FALSE,
                              ![p].onceErr = FALSE,
                              ![p].hs = IF @ = "pending" THEN "failed" ELSE @]
    /\ IF procs[p].hs = "pending"
       THEN LaunchRejected(p, "LaunchTimeout")
       ELSE UNCHANGED <<processes, disp>>
    /\ UNCHANGED <<config, web, now, nproc, ndisp>>

\* A dispatch's 60 s timer fires.
DispatchTimer(d) ==
    /\ disp[d].timer # NoTimer
    /\ now >= disp[d].timer
    /\ disp' = [disp EXCEPT
                  ![d] = Settle([@ EXCEPT !.timer = NoTimer],
                                "rejected", "Timeout", "")]
    /\ UNCHANGED <<config, web, now, processes, procs, nproc, ndisp>>

\* Time passes; a due timer fires before later ones.  The clock is read
\* only through armed timers and lastUsed stamps.
Tick(B) ==
    /\ now < B.time
    /\ \/ processes # <<>>
       \/ \E p \in ProcIds : procs[p].hsTimer # NoTimer
       \/ \E d \in DispIds : disp[d].timer # NoTimer
    /\ \A p \in ProcIds : procs[p].hsTimer = NoTimer \/ procs[p].hsTimer > now
    /\ \A d \in DispIds : disp[d].timer = NoTimer \/ disp[d].timer > now
    /\ now' = now + 1
    /\ UNCHANGED <<config, web, processes, procs, nproc, disp, ndisp>>

(* ------------------------- reaper and cleanup -------------------------- *)
\* process.end() on every worker in ps.
EndAll(pr, ps) ==
    [p \in ProcIds |-> IF p \in ps THEN [pr[p] EXCEPT !.endCalls = @ + 1] ELSE pr[p]]

\* now - lastUsed > this.processTimeout
Old(e) == now - e.lastUsed > processTimeout

\* Mutant of SweepFrom: the loop steps over the entry that follows a deleted
\* one, as an index loop over a spliced array would.
RECURSIVE SweepFromSkip(_, _, _)
SweepFromSkip(reg, i, ended) ==
    IF i > Len(reg) THEN <<reg, ended>>
    ELSE IF Old(reg[i])
    THEN SweepFromSkip(MapDelete(reg, reg[i].chatId), i + 1, ended \cup {reg[i].process})
    ELSE SweepFromSkip(reg, i + 1, ended)

\* The for-of loop of the interval callback from the i-th entry on: an old
\* entry is ended and deleted, and the iterator goes on with the entry that
\* follows it.  Returns the Map and the set of workers ended.
RECURSIVE SweepFrom(_, _, _)
SweepFrom(reg, i, ended) ==
    IF i > Len(reg) THEN <<reg, ended>>
    ELSE IF Old(reg[i])
    THEN SweepFrom(MapDelete(reg, reg[i].chatId), i, ended \cup {reg[i].process})
    ELSE SweepFrom(reg, i + 1, ended)

\* Mutant of Sweep: the entry of an old worker is deleted only once the
\* process has exited.
SweepWaits ==
    /\ LET res == SweepFrom(processes, 1, {})
       IN  /\ processes' = SelectSeq(processes,
                               LAMBDA e : ~Old(e) \/ ~procs[e.process].ended)
           /\ procs' = EndAll(procs, res[2])
    /\ UNCHANGED <<config, web, now, nproc, disp, ndisp>>

\* The setInterval callback of startCleanupInterval.
Sweep ==
    /\ LET res == SweepFrom(processes, 1, {})
       IN  /\ processes' = res[1]
           /\ procs' = EndAll(procs, res[2])
    /\ UNCHANGED <<config, web, now, nproc, disp, ndisp>>

\* Mutant of CleanupFrom: the loop steps over the entry that follows a
\* deleted one.
RECURSIVE CleanupFromSkip(_, _, _)
CleanupFromSkip(reg, i, ended) ==
    IF i > Len(reg) THEN <<reg, ended>>
    ELSE CleanupFromSkip(MapDelete(reg, reg[i].chatId), i + 1,
                         ended \cup {reg[i].process})

\* The for-of loop of cleanup() from the i-th entry on.
RECURSIVE CleanupFrom(_, _, _)
CleanupFrom(reg, i, ended) ==
    IF i > Len(reg) THEN <<reg, ended>>
    ELSE CleanupFrom(MapDelete(reg, reg[i].chatId), i, ended \cup {reg[i].process})

\* Mutant of Cleanup: the workers are ended and their entries are left in
\* the Map.
CleanupKeepsEntries ==
    /\ LET res == CleanupFrom(processes, 1, {})
       IN  /\ processes' = processes
           /\ procs' = EndAll(procs, res[2])
    /\ UNCHANGED <<config, web, now, nproc, disp, ndisp>>

\* cleanup().
Cleanup ==
    /\ LET res == CleanupFrom(processes, 1, {})
       IN  /\ processes' = res[1]
           /\ procs' = EndAll(procs, res[2])
    /\ UNCHANGED <<config, web, now, nproc, disp, ndisp>>

(* ------------------------ POST /api/chat -------------------------------- *)
\* res.json(result): status 200 and the handler's result.
Success == [status |-> 200, keys |-> {"response"}]

\* res.status(500).json(errorResponse); stack is added in development.
Failure(dev) ==
    [status |-> 500,
     keys |-> {"error", "type", "requestId"} \cup (IF dev THEN {"stack"} ELSE {})]

\* Requests are numbered in order of arrival.
Arrives(r) == web[r].route = "none" /\ \A q \in ReqIds : q < r => web[q].route # "none"

\* The message field of a request body: missing, empty or a text.
Bodies == {Absent, "", "hello"}

\* Mutant of Post: the timer is armed and chatHandler called before the body
\* is tested.
PostTestsLate(r, hasMessage, dev) ==
    /\ Arrives(r)
    /\ web' = [web EXCEPT ![r] =
                 IF hasMessage
                 THEN [@ EXCEPT !.route = "awaiting", !.chatHandler = "pending",
                                !.timeoutPromise = "pending"]
                 ELSE [@ EXCEPT !.route = "done",
                                !.chatHandler = "pending",
                                !.timeoutPromise = "pending",
                                !.error = "Message is required",
                                !.responses = Append(@, Failure(dev))]]
    /\ UNCHANGED manager

\* The route's function up to its await: a body without a message throws
\* into the catch block; otherwise the 30 s timer is armed, chatHandler is
\* called and the function awaits the race of the two promises.
Post(r, hasMessage, dev) ==
    /\ Arrives(r)
    /\ web' = [web EXCEPT ![r] =
                 IF hasMessage
                 THEN [@ EXCEPT !.route = "awaiting", !.chatHandler = "pending",
                                !.timeoutPromise = "pending"]
                 ELSE [@ EXCEPT !.route = "done",
                                !.error = "Message is required",
                                !.responses = Append(@, Failure(dev))]]
    /\ UNCHANGED manager

\* Mutant of Raced: a promise of the race that settles when the race is
\* already settled still resumes the function.
RacedAgain(w, response) ==
    IF w.route \in {"awaiting", "done"}
    THEN [w EXCEPT !.route = "done", !.responses = Append(@, response)]
    ELSE w

\* One promise of Promise.race settles: the function resumes only if the
\* race was not settled yet, and writes the one response of its path.
Raced(w, response) ==
    IF w.route = "awaiting"
    THEN [w EXCEPT !.route = "done", !.responses = Append(@, response)]
    ELSE w

\* chatHandler(req.body) resolves with its result.
ChatHandlerResolves(r) ==
    /\ web[r].chatHandler = "pending"
    /\ web' = [web EXCEPT ![r] = Raced([@ EXCEPT !.chatHandler = "resolved"], Success)]
    /\ UNCHANGED manager

\* chatHandler(req.body) rejects.
ChatHandlerRejects(r, dev) ==
    /\ web[r].chatHandler = "pending"
    /\ web' = [web EXCEPT ![r] =
                 Raced([@ EXCEPT !.chatHandler = "rejected"], Failure(dev))]
    /\ UNCHANGED manager

\* The route's 30 s timer fires (it is never cleared) and rejects
\* timeoutPromise.
RequestTimeout(r, dev) ==
    /\ web[r].timeoutPromise = "pending"
    /\ web' = [web EXCEPT ![r] =
                 Raced([@ EXCEPT !.timeoutPromise = "rejected"], Failure(dev))]
    /\ UNCHANGED manager

\* The steps of the server's chat route.
NextRoute ==
    \/ \E r \in ReqIds, hasMessage, dev \in BOOLEAN : Post(r, hasMessage, dev)
    \/ \E r \in ReqIds : ChatHandlerResolves(r)
    \/ \E r \in ReqIds, dev \in BOOLEAN : ChatHandlerRejects(r, dev)
    \/ \E r \in ReqIds, dev \in BOOLEAN : RequestTimeout(r, dev)

(* ------------------- the one-shot chatHandler -------------------------- *)
\* The entries of outputBuffer: a parsed stdout line (mode: 'json'), or a
\* stderr line as the 'stderr' listener of api/chat.js stores it,
\* `ERROR: ${stderr}`, a string that is not JSON.
Parsed(m) == [string |-> FALSE, value |-> m]
ErrorLine == [string |-> TRUE, value |-> Msg("ERROR: ", Absent, Absent)]

\* The async function chatHandler settles its promise: the route's function,
\* if it awaits the race, resumes with the response of that outcome.
HandlerSettles(w, promise, kind, dev) ==
    Raced([w EXCEPT !.chatHandler = promise, !.run.kind = kind],
          IF promise = "resolved" THEN Success ELSE Failure(dev))

\* chatHandler(req) called without the route, up to its first await: a
\* request without a message throws 'Message is required'.
ChatHandler(r, hasMessage) ==
    /\ Arrives(r)
    /\ web' = [web EXCEPT ![r] =
                 IF hasMessage
                 THEN [@ EXCEPT !.route = "direct", !.chatHandler = "pending"]
                 ELSE [@ EXCEPT !.route = "direct", !.chatHandler = "rejected",
                                !.run.kind = "Message is required"]]
    /\ UNCHANGED manager

\* The handler resumes after its await of the script's path: a missing
\* script throws; otherwise the promise is created, its timer armed, the
\* PythonShell constructed and the three listeners attached.
RunPythonScript(r, file, found, dev) ==
    /\ web[r].chatHandler = "pending"
    /\ web[r].run.file = 0
    /\ web' = [web EXCEPT ![r] =
                 IF found
                 THEN [@ EXCEPT !.run.file = file, !.run.promise = "pending",
                                !.run.timeoutId = "armed",
                                !.run.pyshell = "running"]
                 ELSE HandlerSettles([@ EXCEPT !.run.file = file], "rejected",
                                     "ScriptNotFound", dev)]
    /\ UNCHANGED manager

\* Mutant of SettleRun: a later resolve()/reject() overwrites the outcome.
SettleRunAgain(w, promise, kind, val, dev) ==
    HandlerSettles([w EXCEPT !.run.promise = promise, !.run.val = val],
                   promise, kind, dev)

\* resolve()/reject() of the run's promise: only the first call has an
\* effect; the handler's await then returns { response } or throws.
SettleRun(w, promise, kind, val, dev) ==
    IF w.run.promise = "pending"
    THEN HandlerSettles([w EXCEPT !.run.promise = promise, !.run.val = val],
                        promise, kind, dev)
    ELSE w

\* pyshell.on('message'): the parsed line is pushed.
ShotMessage(r, m) ==
    /\ web[r].run.pyshell = "running"
    /\ Len(web[r].run.outputBuffer) < MaxOutput
    /\ web' = [web EXCEPT ![r].run.outputBuffer = Append(@, Parsed(m))]
    /\ UNCHANGED manager

\* pyshell.on('stderr'): api/chat.js pushes the line, the 30 s version logs
\* it.
StderrListener(w) ==
    IF w.run.file = 1
    THEN [w EXCEPT !.run.outputBuffer = Append(@, ErrorLine)]
    ELSE w

ShotStderr(r) ==
    /\ web[r].run.pyshell = "running"
    /\ Len(web[r].run.outputBuffer) < MaxOutput
    /\ web' = [web EXCEPT ![r] = StderrListener(@)]
    /\ UNCHANGED manager

\* The outcome the end callback draws from outputBuffer: reading a field of
\* undefined and JSON.parse of a stderr line throw into the catch block.
LastOutput(buf, err) ==
    IF err THEN <<"rejected", "EndError", "">>
    ELSE IF Len(buf) = 0 \/ buf[Len(buf)].string
    THEN <<"rejected", "InvalidFormat", "">>
    ELSE LET result == buf[Len(buf)].value
         IN  IF Truthy(result.error)
             THEN <<"rejected", "WorkerError", result.error>>
             ELSE <<"resolved", "Response", result.response>>

\* The callback of pyshell.end(): the worker has exited.
EndCallback(w, err, dev) ==
    LET o   == LastOutput(w.run.outputBuffer, err)
        off == [w EXCEPT !.run.pyshell = "ended",
                         !.run.timeoutId = IF @ = "armed" THEN "cleared" ELSE @]
    IN  IF w.run.file = 1
        THEN IF w.run.hasResponded THEN off
             ELSE SettleRun([off EXCEPT !.run.hasResponded = TRUE],
                            o[1], o[2], o[3], dev)
        ELSE SettleRun(off, o[1], o[2], o[3], dev)

ShotEnd(r, err, dev) ==
    /\ web[r].run.pyshell = "running"
    /\ web' = [web EXCEPT ![r] = EndCallback(@, err, dev)]
    /\ UNCHANGED manager

\* The callback of the run's timer.
ShotTimer(r, dev) ==
    /\ web[r].run.timeoutId = "armed"
    /\ web' = [web EXCEPT ![r] =
                 LET fired == [@ EXCEPT !.run.timeoutId = "fired"]
                 IN  IF @.run.file = 1
                     THEN IF @.run.hasResponded THEN fired
                          ELSE SettleRun([fired EXCEPT !.run.hasResponded = TRUE],
                                         "rejected", "Timeout", "", dev)
                     ELSE SettleRun(fired, "rejected", "Timeout", "", dev)]
    /\ UNCHANGED manager

\* The steps of the chat route with the one-shot handler behind it, and of
\* the handler called on its own, for the first n requests.
NextShot(n) ==
    \/ \E r \in 1..n, message \in Bodies, dev \in BOOLEAN :
          Post(r, Truthy(message), dev)
    \/ \E r \in 1..n, dev \in BOOLEAN : RequestTimeout(r, dev)
    \/ \E r \in 1..n, message \in Bodies : ChatHandler(r, Truthy(message))
    \/ \E r \in 1..n, file \in {1, 2}, found, dev \in BOOLEAN :
          RunPythonScript(r, file, found, dev)
    \/ \E r \in 1..n, m \in Messages : ShotMessage(r, m)
    \/ \E r \in 1..n : ShotStderr(r)
    \/ \E r \in 1..n, err, dev \in BOOLEAN : ShotEnd(r, err, dev)
    \/ \E r \in 1..n, dev \in BOOLEAN : ShotTimer(r, dev)

(* --------------------------- specification ----------------------------- *)
\* The steps of the manager within scope B.
Next(B) ==
    \/ \E c \in 1..B.chats : SendMessage(B, c)
    \/ \E c \in 1..B.chats : GetChatProcess(B, c)
    \/ \E c \in 1..B.chats : InitializeChatProcess(B, c)
    \/ \E p \in ProcIds, m \in Messages : WorkerMessage(B, p, m)
    \/ \E p \in ProcIds, line \in StderrLines : WorkerStderr(B, p, line)
    \/ \E p \in ProcIds : WorkerError(p)
    \/ \E p \in ProcIds, err \in BOOLEAN : WorkerEnd(p, err)
    \/ \E p \in ProcIds : HandshakeTimer(p)
    \/ \E d \in DispIds : DispatchTimer(d)
    \/ Tick(B)
    \/ Sweep
    \/ Cleanup

\* The steps of the manager within scope B with a worker whose every reply
\* carries both a response and an error.
NextBoth(B) ==
    \/ \E c \in 1..B.chats : SendMessage(B, c)
    \/ \E p \in ProcIds, m \in {Ready, RespErr} : WorkerMessage(B, p, m)
    \/ \E p \in ProcIds, err \in BOOLEAN : WorkerEnd(p, err)
    \/ \E p \in ProcIds : HandshakeTimer(p)
    \/ \E d \in DispIds : DispatchTimer(d)
    \/ Tick(B)

TypeOK ==
    /\ variant \in {1, 2}
    /\ nproc \in 0..MaxProcs
    /\ ndisp \in 0..MaxDispatch
    /\ \A i \in 1..Len(processes) : processes[i].process \in 1..nproc

\* Launches of several sessions: a limit of 1 process, 2 chat ids.
LaunchChats == 2
LaunchProcs == 2
LaunchDisps == 1
LaunchBufs  == 1
LaunchTime  == 2
LaunchLimit == 1
LaunchIdle  == 3
LaunchScope == Scope(LaunchChats, LaunchProcs, LaunchDisps, LaunchBufs, LaunchTime)
SpecLaunch  == Construct(LaunchLimit, LaunchIdle) /\ [][Next(LaunchScope)]_vars

\* Dispatches on one session and one worker.
DispatchChats == 1
DispatchProcs == 1
DispatchDisps == 2
DispatchBufs  == 2
DispatchTime  == 2
DispatchLimit == 1
DispatchIdle  == 3
DispatchScope == Scope(DispatchChats, DispatchProcs, DispatchDisps, DispatchBufs,
                       DispatchTime)
SpecDispatch  == Construct(DispatchLimit, DispatchIdle) /\ [][Next(DispatchScope)]_vars

\* The reaper over two registered sessions.
ReaperChats == 2
ReaperProcs == 2
ReaperDisps == 1
ReaperBufs  == 1
ReaperTime  == 4
ReaperLimit == 2
ReaperIdle  == 3
ReaperScope == Scope(ReaperChats, ReaperProcs, ReaperDisps, ReaperBufs, ReaperTime)
SpecReaper  == Construct(ReaperLimit, ReaperIdle) /\ [][Next(ReaperScope)]_vars

\* An idle time below the dispatch timeout (this.processTimeout is a field).
ShortIdleChats == 1
ShortIdleProcs == 1
ShortIdleDisps == 1
ShortIdleBufs  == 1
ShortIdleTime  == 2
ShortIdleLimit == 1
ShortIdleIdle  == 0
ShortIdleScope == Scope(ShortIdleChats, ShortIdleProcs, ShortIdleDisps, ShortIdleBufs,
                        ShortIdleTime)
SpecShortIdle  == Construct(ShortIdleLimit, ShortIdleIdle) /\ [][Next(ShortIdleScope)]_vars

\* Noise on stderr during one dispatch.
NoiseChats == 1
NoiseProcs == 1
NoiseDisps == 1
NoiseBufs  == 1
NoiseTime  == 2
NoiseLines == 2
NoiseLimit == 1
NoiseIdle  == 3
NoiseScope == [Scope(NoiseChats, NoiseProcs, NoiseDisps, NoiseBufs, NoiseTime)
                 EXCEPT !.noise = NoiseLines]
SpecNoise  == Construct(NoiseLimit, NoiseIdle) /\ [][Next(NoiseScope)]_vars

\* Calls made at instant 0, with the clock running past both timeouts; the
\* timers of Node fire once they are due.
LiveChats == 1
LiveProcs == 1
LiveDisps == 2
LiveBufs  == 1
LiveTime  == 3
LiveCalls == 0
LiveLimit == 1
LiveIdle  == 3
LiveScope == [Scope(LiveChats, LiveProcs, LiveDisps, LiveBufs, LiveTime)
                EXCEPT !.calls = LiveCalls]
SpecLive  ==
    /\ Construct(LiveLimit, LiveIdle)
    /\ [][Next(LiveScope)]_vars
    /\ WF_vars(Tick(LiveScope))
    /\ \A p \in ProcIds : WF_vars(HandshakeTimer(p))
    /\ \A d \in DispIds : WF_vars(DispatchTimer(d))

\* Two sessions, each with its worker and its dispatch; the calls are made
\* at instant 0 and the workers' messages are replies or ready statuses.
PairChats == 2
PairProcs == 2
PairDisps == 2
PairBufs  == 0
PairTime  == 2
PairCalls == 0
PairLimit == 2
PairIdle  == 3
PairScope == [Scope(PairChats, PairProcs, PairDisps, PairBufs, PairTime)
                EXCEPT !.calls = PairCalls]
SpecPair  == Construct(PairLimit, PairIdle) /\ [][Next(PairScope)]_vars

\* The chat route of the server, MaxRequests requests.
RouteLimit == 1
RouteIdle  == 3
SpecRoute  == Construct(RouteLimit, RouteIdle) /\ [][NextRoute]_vars

\* The chat route with the one-shot handler, one request.
ShotRequests == 1
ShotLimit == 1
ShotIdle  == 3
SpecShot  == Construct(ShotLimit, ShotIdle) /\ [][NextShot(ShotRequests)]_vars

\* Dispatches to a worker that replies with both fields.
BothChats == 1
BothProcs == 2
BothDisps == 2
BothBufs  == 1
BothTime  == 2
BothLimit == 1
BothIdle  == 3
BothScope == Scope(BothChats, BothProcs, BothDisps, BothBufs, BothTime)
SpecBoth  == Construct(BothLimit, BothIdle) /\ [][NextBoth(BothScope)]_vars

(* ------------------------------ claims --------------------------------- *)
\* C1: in every reachable state the Map holds at most maxProcesses entries.
CapacityRespected == Len(processes) <= maxProcesses

\* Worker p is in its launch handshake.
Launching(p) == procs[p].hs = "pending"

\* C2: calls of getChatProcess for one unregistered chat id that overlap (a
\* later one starts before the first one's handshake has completed) spawn one
\* worker in total: no two workers of one chat id are in their handshake at
\* the same time.
OneLaunchPerSession ==
    \A p, q \in ProcIds :
        p # q /\ Launching(p) /\ Launching(q) => procs[p].chat # procs[q].chat

\* The sendMessage calls outstanding on worker p: sent, not yet settled.
InFlight(p) == {d \in DispIds : disp[d].proc = p /\ Pending(disp[d])}

\* C3: at most one request is in flight per worker at any time (a second
\* dispatch on a busy session fails with Busy and writes nothing).
AtMostOneInFlight == \A p \in ProcIds : Cardinality(InFlight(p)) <= 1

\* The promise of call r is settled.
Settled(r) == r.state \in {"resolved", "rejected"}

\* What the caller of r observes.
Outcome(r) == <<r.state, r.kind, r.val>>

TimeoutRetiresHandle ==
    \A d \in DispIds : disp[d].kind = "Timeout" => ~Registered(disp[d].proc)

\* Worker p has a dispatch outstanding or is in its launch handshake.
Busy(p) == InFlight(p) # {} \/ Launching(p)

Expired(e) == now - e.lastUsed > processTimeout
Kept       == SelectSeq(processes, LAMBDA e : ~Expired(e))
Reaped     == {processes[i].process : i \in {j \in 1..Len(processes) : Expired(processes[j])}}

\* C7: a sweep ends the process of every entry whose lastUsed is older than
\* processTimeout and removes the entry; the other entries stay, in order,
\* and no other process is ended.
SweepReapsIdle ==
    [][Sweep =>
          /\ processes' = Kept
          /\ \A p \in ProcIds :
                procs'[p].endCalls = procs[p].endCalls + (IF p \in Reaped THEN 1 ELSE 0)]_vars

\* C7 witness: an idle worker was ended and removed while a younger entry
\* stayed in the Map.
SweptIdle ==
    /\ now > processTimeout
    /\ \E p \in ProcIds :
          /\ procs[p].hs = "ok"
          /\ procs[p].endCalls = 1
          /\ ~Registered(p)
          /\ InFlight(p) = {}
    /\ \E i \in 1..Len(processes) : ~Expired(processes[i])

\* C8: getChatProcess never returns a worker whose process has ended: a
\* sendMessage call is never handed one.
DeadNeverReturned ==
    [][\A d \in DispIds :
          disp[d].proc = 0 /\ disp'[d].proc # 0 => ~procs[disp'[d].proc].ended]_vars

\* C9: the process of a failed launch has been asked to terminate.
FailedLaunchTerminated ==
    \A p \in ProcIds : procs[p].hs = "failed" => procs[p].endCalls > 0

\* C10: a worker enters the Map only in the step in which its first message
\* arrives, is a ready status and comes before the handshake timer has fired;
\* a step in which a launch fails leaves the Map as it was.
RegisteredOnlyOnReady ==
    [][\A p \in ProcIds :
          /\ ~Registered(p) /\ Registered(p)' =>
                /\ procs[p].onceMsg
                /\ procs[p].hs = "pending"
                /\ procs[p].hsTimer # NoTimer
                /\ now <= procs[p].hsTimer
                /\ procs'[p].hs = "ok"
                /\ \E m \in Messages : m.status = "ready" /\ WorkerMessage(LaunchScope, p, m)
          /\ procs[p].hs = "pending" /\ procs'[p].hs = "failed" =>
                processes' = processes]_vars

\* C10 witness: one launch has succeeded and is registered, another failed.
LaunchedAndFailed ==
    /\ \E i \in 1..Len(processes) : procs[processes[i].process].hs = "ok"
    /\ \E p \in ProcIds : procs[p].hs = "failed" /\ ~Registered(p)

\* C11: when the Map holds maxProcesses entries (or more), getChatProcess,
\* initializeChatProcess and the getChatProcess of a sendMessage for a chat
\* id that has no entry spawn no worker, end no worker and leave the Map as
\* it was; the sendMessage call rejects with the capacity error.
CapacityErrorChangesNothing ==
    [][\A c \in 1..LaunchChats :
          Len(processes) >= maxProcesses /\ ~MapHas(processes, c) =>
              /\ GetChatProcess(LaunchScope, c) =>
                    UNCHANGED <<processes, procs, nproc>>
              /\ InitializeChatProcess(LaunchScope, c) =>
                    UNCHANGED <<processes, procs, nproc>>
              /\ SendMessage(LaunchScope, c) =>
                    /\ UNCHANGED <<processes, procs, nproc>>
                    /\ Outcome(disp'[ndisp']) = <<"rejected", "Capacity", "">>]_vars

\* C11 witness: a sendMessage for an unregistered chat id was refused while
\* the Map was full with another chat id's worker.
RefusedAtCapacity ==
    \E d \in DispIds :
        /\ disp[d].kind = "Capacity"
        /\ Len(processes) = maxProcesses
        /\ ~MapHas(processes, disp[d].chat)
        /\ nproc = Len(processes)

\* The entries of the Map for chatId.
EntriesOf(chatId) == {i \in 1..Len(processes) : processes[i].chatId = chatId}

\* A message of the success shape {"response": X}, X a non-empty string (the
\* empty string is the case of C16).
SuccessShape(m) == Truthy(m.response) /\ m.error = Absent /\ m.status = Absent

RepliesInOrder ==
    [][\A d \in DispIds, m \in Messages :
          /\ InFlight(disp[d].proc) = {d} /\ disp[d].msgH /\ Replies(m)
          /\ Answering(disp[d].proc) # 0
          /\ WorkerMessage(DispatchScope, disp[d].proc, m)
          => Answering(disp[d].proc) = d]_vars

\* What the end of the worker is to make of outputBuffer: the outcome of
\* the last buffered message if it has an error or a response field, and a
\* protocol error otherwise.
FromBuffer(r) ==
    IF Len(r.buf) = 0 THEN <<"rejected", "NoOutput", "">>
    ELSE LET last == r.buf[Len(r.buf)]
         IN  IF last.error # Absent THEN <<"rejected", "WorkerError", last.error>>
             ELSE IF last.response # Absent
             THEN <<"resolved", "Response", last.response>>
             ELSE <<"rejected", "NoValidResponse", "">>

\* C14: the end of a worker, with or without an error (a nonzero exit code),
\* settles at once every call pending on it, with the outcome drawn from the
\* call's outputBuffer; calls that a real stderr line or an 'error' event
\* has marked are left aside.
EndSettlesFromBuffer ==
    [][\A d \in DispIds, err \in BOOLEAN :
          /\ Pending(disp[d]) /\ ~disp[d].errorOccurred
          /\ WorkerEnd(disp[d].proc, err)
          => /\ Settled(disp'[d])
             /\ Outcome(disp'[d]) = FromBuffer(disp[d])]_vars

\* C15: a stderr line that includes one of the noise markers changes
\* nothing of a call but the count of such lines: not its errorOccurred
\* flag, its buffer, its timer or its outcome, so that what settles the call
\* afterwards finds it as if the line had not been written.
NoiseChangesNothing ==
    [][\A p \in ProcIds, line \in StderrLines :
          line \cap NoiseMarkers # {} /\ WorkerStderr(NoiseScope, p, line) =>
              /\ \A d \in DispIds :
                    disp'[d] = [disp[d] EXCEPT !.noise = disp'[d].noise]
              /\ UNCHANGED <<config, web, now, processes, procs, nproc, ndisp>>]_vars

\* C15 witness: a call on which noise lines were counted was resolved by the
\* worker's reply.
ResolvedAfterNoise ==
    \E d \in DispIds :
        /\ disp[d].noise = NoiseLines
        /\ ~disp[d].errorOccurred
        /\ Outcome(disp[d]) = <<"resolved", "Response", "X">>

\* C16: a message from the worker settles a pending call exactly when it
\* has a response or an error field, whatever the value of the field; a
\* message with neither (a ready status after the launch) is pushed on the
\* call's outputBuffer and leaves the call pending.
SettlesIffReplyShape ==
    [][\A d \in DispIds, m \in Messages :
          /\ Pending(disp[d]) /\ disp[d].msgH
          /\ WorkerMessage(DispatchScope, disp[d].proc, m)
          => /\ Settled(disp'[d]) <=> IsReply(m)
             /\ ~IsReply(m) => disp'[d].buf = Append(disp[d].buf, m)]_vars

LastUsedAtCompletion ==
    [][\A d \in DispIds :
          Pending(disp[d]) /\ disp'[d].state = "resolved" =>
              \A i \in 1..Len(processes') :
                  processes'[i].process = disp[d].proc =>
                      processes'[i].lastUsed = now']_vars

\* C19: getChatProcess for a chat id whose entry holds a running worker
\* spawns nothing and leaves the Map as it was, lastUsed included.
ResolveRefreshesNothing ==
    [][\A c \in 1..LaunchChats :
          /\ MapHas(processes, c)
          /\ ~Closed(processes[MapIndex(processes, c)].process)
          /\ GetChatProcess(LaunchScope, c)
          => UNCHANGED <<processes, procs, nproc>>]_vars

\* The worker of chatId's entry, 0 if there is none.
WorkerOf(reg, chatId) ==
    IF MapHas(reg, chatId) THEN reg[MapIndex(reg, chatId)].process ELSE 0

\* C20: a chat id is bound to one worker: initializeChatProcess for a chat
\* id that has an entry constructs no PythonShell, and no step puts another
\* worker in the place of the one an entry holds.
PrewarmKeepsWorker ==
    [][\A c \in 1..ReaperChats :
          MapHas(processes, c) =>
              /\ InitializeChatProcess(ReaperScope, c) =>
                    nproc' = nproc /\ procs' = procs
              /\ MapHas(processes', c) =>
                    WorkerOf(processes', c) = WorkerOf(processes, c)]_vars

\* Call d has been made and its promise is not settled.
Waiting(d) == disp[d].state \in {"launching", "sent"}

\* C21: with timers that fire, every sendMessage call that has been made is
\* eventually settled, whatever the worker does.
EverySendSettles ==
    \A d \in DispIds : Waiting(d) ~> Settled(disp[d])

\* C21 witness: a call was released by its 60 s timer, its worker having
\* completed the handshake and then written nothing.
ReleasedByTimer ==
    \E d \in DispIds :
        /\ Outcome(disp[d]) = <<"rejected", "Timeout", "">>
        /\ disp[d].buf = <<>>
        /\ ~disp[d].answered
        /\ ~procs[disp[d].proc].ended

\* C22: a settled call has left nothing behind: its timer is cancelled and
\* its 'message', 'stderr', 'error' and 'end' listeners are off the worker.
SettledLeavesNothing ==
    \A d \in DispIds :
        Settled(disp[d]) =>
            /\ disp[d].timer = NoTimer
            /\ ~disp[d].msgH /\ ~disp[d].errH /\ ~disp[d].errorL /\ ~disp[d].endH

\* The handshake of worker p is settled.
Launched(p) == procs[p].hs \in {"ok", "failed"}

\* C23: the handshake of a worker is settled once, by the first of the ready
\* message its once('message') listener sees, the 'error' event and the 30 s
\* timer.  A settled handshake keeps its result; a worker enters the Map
\* only in the step that makes its handshake succeed; the step that makes it
\* fail, and every later message, error or timer of a worker whose handshake
\* is settled, leave the Map as it was.
OneHandshakeWinner ==
    [][\A p \in ProcIds :
          /\ Launched(p) => procs'[p].hs = procs[p].hs
          /\ ~Registered(p) /\ Registered(p)' =>
                Launching(p) /\ procs'[p].hs = "ok"
          /\ Launching(p) /\ procs'[p].hs = "ok" =>
                /\ procs[p].hsTimer # NoTimer /\ procs'[p].hsTimer = NoTimer
                /\ WorkerOf(processes', procs[p].chat) = p
          /\ Launching(p) /\ procs'[p].hs = "failed" =>
                /\ procs'[p].hsTimer = NoTimer
                /\ processes' = processes
          /\ Launched(p) /\ (\/ \E m \in Messages : WorkerMessage(LaunchScope, p, m)
                              \/ WorkerError(p)
                              \/ HandshakeTimer(p)) =>
                processes' = processes]_vars

\* C23 witness: a launch lost to its timer and left its worker running, so
\* that a ready message can still follow, and another launch succeeded.
LostToTimerThenLaunched ==
    \E p, q \in ProcIds :
        /\ procs[p].hs = "failed" /\ ~procs[p].ended /\ ~Registered(p)
        /\ procs[p].caller # 0 /\ disp[procs[p].caller].kind = "LaunchTimeout"
        /\ procs[q].hs = "ok" /\ Registered(q)

\* The entries of the Map for chat ids other than chatId.
OtherEntries(reg, chatId) == SelectSeq(reg, LAMBDA e : e.chatId # chatId)

\* The step is an event of worker p or the timer of a call on p.
EventOf(p) ==
    \/ \E m \in Messages : WorkerMessage(PairScope, p, m)
    \/ \E line \in StderrLines : WorkerStderr(PairScope, p, line)
    \/ WorkerError(p)
    \/ \E err \in BOOLEAN : WorkerEnd(p, err)
    \/ HandshakeTimer(p)
    \/ \E d \in DispIds : disp[d].proc = p /\ DispatchTimer(d)

\* C24: a message, stderr line, error, end or timer of the worker of one
\* chat id leaves the calls and the Map entries of the other chat ids as
\* they were; and a sendMessage is refused at once only for the limit,
\* whatever the calls and launches of other chat ids in progress, while a
\* reply of its own worker settles it.
SessionsIndependent ==
    [][/\ \A p \in ProcIds :
             /\ procs[p].chat # 0
             /\ \/ \E d \in DispIds :
                      disp[d].chat # procs[p].chat /\ disp'[d] # disp[d]
                \/ OtherEntries(processes', procs[p].chat)
                      # OtherEntries(processes, procs[p].chat)
             => ~EventOf(p)
       /\ \A c \in 1..PairChats :
             SendMessage(PairScope, c) =>
                 \/ disp'[ndisp'].state \in {"launching", "sent"}
                 \/ disp'[ndisp'].kind = "Capacity" /\ ~MapHas(processes, c)
                                                    /\ Len(processes) >= maxProcesses
                 \/ disp'[ndisp'].kind = "SendFailure"
                       /\ Closed(WorkerOf(processes, c))
       /\ \A d \in DispIds, m \in Messages :
             /\ Pending(disp[d]) /\ disp[d].msgH /\ Replies(m)
             /\ WorkerMessage(PairScope, disp[d].proc, m)
             => Settled(disp'[d])]_vars

\* C24 witness: the call of one chat id was resolved by its worker while the
\* call of another chat id, made before, is still pending on its own worker.
SettledBesidePending ==
    /\ disp[1].state = "sent"
    /\ disp[2].state = "resolved"
    /\ disp[1].chat # disp[2].chat
    /\ disp[1].proc # disp[2].proc
    /\ Registered(disp[1].proc) /\ Registered(disp[2].proc)

\* The state of worker p's handle, read off the workers pr and the calls ds:
\* dead once its process has ended, terminating once end() was called on
\* it, busy while a call is pending on it, ready before its first call and
\* idle after it.
HandleState(pr, ds, p) ==
    IF pr[p].chat = 0 THEN "none"
    ELSE IF pr[p].ended THEN "dead"
    ELSE IF pr[p].endCalls > 0 THEN "terminating"
    ELSE IF pr[p].hs = "pending" THEN "launching"
    ELSE IF pr[p].hs = "failed" THEN "failed"
    ELSE IF \E d \in DispIds : ds[d].proc = p /\ ds[d].state = "sent" THEN "busy"
    ELSE IF \E d \in DispIds : ds[d].proc = p THEN "idle"
    ELSE "ready"

\* The transitions of a handle.  A step of the event loop may take two of
\* them at once (launching, ready, busy when the ready message releases a
\* waiting sendMessage); the process may end in any state; a failed launch
\* is the case of C9.
HandleMoves ==
    {<<"none", "launching">>, <<"launching", "ready">>, <<"launching", "busy">>,
     <<"launching", "failed">>, <<"ready", "busy">>, <<"busy", "idle">>,
     <<"idle", "busy">>, <<"launching", "terminating">>,
     <<"ready", "terminating">>, <<"idle", "terminating">>,
     <<"failed", "terminating">>, <<"terminating", "dead">>,
     <<"launching", "dead">>, <<"failed", "dead">>, <<"ready", "dead">>,
     <<"busy", "dead">>, <<"idle", "dead">>}

\* C25: a handle moves only along the transitions of its state machine: in
\* particular no step takes a busy handle to terminating (neither the sweep
\* nor cleanup() ends a worker on which a call is pending) and none leaves
\* dead.
HandleStateMachine ==
    [][\A p \in ProcIds :
          LET from == HandleState(procs, disp, p)
              to   == HandleState(procs', disp', p)
          IN  from # to => <<from, to>> \in HandleMoves]_vars

\* C26: removal is idempotent.  end() is called at most once on a worker;
\* a sweep or a cleanup() that follows a sweep or a cleanup() at once finds
\* nothing to end or delete; in particular cleanup() twice is cleanup()
\* once.
RemovalIdempotent ==
    [][/\ \A p \in ProcIds : procs'[p].endCalls <= 1
       /\ Sweep \/ Cleanup =>
             /\ SweepFrom(processes', 1, {}) = <<processes', {}>>
             /\ \A p \in ProcIds :
                   procs'[p].endCalls > procs[p].endCalls => ~Registered(p)'
       /\ Cleanup => CleanupFrom(processes', 1, {}) = <<processes', {}>>]_vars

\* C26 witness: every entry is gone, one worker had end() called on it and
\* its process has ended, another ended by itself.
RemovedAndDead ==
    /\ processes = <<>>
    /\ \E p, q \in ProcIds :
          /\ procs[p].endCalls = 1 /\ procs[p].ended
          /\ procs[q].hs = "ok" /\ procs[q].ended

\* C27: a POST /api/chat request gets one response.  Never more than one is
\* written; the function of the route ends with exactly one written; the
\* response is the handler's result when chatHandler resolved before the
\* timer fired, and a 500 with error, type and requestId otherwise; what
\* settles after the response was written writes nothing.
OneResponsePerRequest ==
    [][\A r \in ReqIds :
          /\ Len(web'[r].responses) <= 1
          /\ web'[r].route = "done" => Len(web'[r].responses) = 1
          /\ web[r].route = "done" => web'[r].responses = web[r].responses
          /\ web[r].route = "awaiting" /\ web'[r].route = "done" =>
                IF ChatHandlerResolves(r)
                THEN web'[r].responses = <<Success>>
                ELSE /\ web'[r].responses[1].status = 500
                     /\ {"error", "type", "requestId"} \subseteq web'[r].responses[1].keys
          /\ web[r].route = "none" /\ web'[r].route = "done" =>
                web'[r].responses[1].status = 500]_vars

\* C27 witness: a request was answered with the handler's result and its
\* timer fired afterwards; another was answered by the timeout and its
\* handler settled afterwards.
AnsweredThenLate ==
    \E r, q \in ReqIds :
        /\ web[r].responses = <<Success>> /\ web[r].timeoutPromise = "rejected"
        /\ web[q].chatHandler = "resolved" /\ web[q].timeoutPromise = "rejected"
        /\ Len(web[q].responses) = 1 /\ web[q].responses[1].status = 500

\* C28: a call whose send() threw is rejected with the send failure and its
\* timer is cleared in the same step; from then on its outcome stays and
\* the manager writes nothing for it to any worker.
SendFailureFinal ==
    [][\A d \in DispIds :
          /\ disp'[d].kind = "SendFailure" =>
                /\ Outcome(disp'[d]) = <<"rejected", "SendFailure", "">>
                /\ disp'[d].timer = NoTimer
                /\ ~disp'[d].sent
          /\ disp[d].kind = "SendFailure" =>
                /\ Outcome(disp'[d]) = Outcome(disp[d])
                /\ disp'[d].proc = disp[d].proc
                /\ ~disp'[d].sent
                /\ \A p \in ProcIds :
                      procs[p].chat = 0 /\ procs'[p].chat # 0 => procs'[p].caller # d]_vars

\* C28 witness: the send of a call threw on a worker whose process had
\* ended, and the 60 s of its timer have passed.
SendThrew ==
    \E d \in DispIds :
        /\ disp[d].kind = "SendFailure"
        /\ procs[disp[d].proc].ended
        /\ now >= DispatchTimeout

\* C29: no worker is leaked: a worker that was spawned, whose process runs
\* and on which end() was never called is in its handshake or is the worker
\* of its chat id's entry.
NoWorkerLeaked ==
    \A p \in ProcIds :
        procs[p].chat # 0 /\ ~procs[p].ended /\ procs[p].endCalls = 0 =>
            Launching(p) \/ WorkerOf(processes, procs[p].chat) = p

\* C30: cleanup() calls end() once on the worker of every entry of the Map
\* and on no other, and leaves the Map empty.
CleanupEndsAll ==
    [][Cleanup =>
          /\ processes' = <<>>
          /\ \A p \in ProcIds :
                procs'[p].endCalls =
                    procs[p].endCalls + (IF Registered(p) THEN 1 ELSE 0)]_vars

\* C30 witness: two workers were registered and ended, before any entry
\* could be old enough for the sweep, and the Map is empty.
CleanedUpTwo ==
    /\ processes = <<>>
    /\ now <= processTimeout
    /\ \E p, q \in ProcIds :
          /\ p # q
          /\ procs[p].hs = "ok" /\ procs[p].endCalls = 1
          /\ procs[q].hs = "ok" /\ procs[q].endCalls = 1

\* The run's promise of request r is settled.
RunSettled(r) == web[r].run.promise \in {"resolved", "rejected"}

\* C31: the promise of a script run is settled once.  Once settled, its
\* outcome and the handler's never change; an end callback that runs after
\* the timer has fired only records that the worker ended; an end callback
\* that runs first clears the timer, and only a timer still armed rejects
\* with the timeout error.
RunSettledOnce ==
    [][\A r \in ReqIds :
          /\ RunSettled(r) =>
                /\ web'[r].run.promise = web[r].run.promise
                /\ web'[r].run.kind = web[r].run.kind
                /\ web'[r].run.val = web[r].run.val
                /\ web'[r].chatHandler = web[r].chatHandler
          /\ \A err, dev \in BOOLEAN :
                ShotEnd(r, err, dev) =>
                    IF web[r].run.timeoutId = "fired"
                    THEN web'[r] = [web[r] EXCEPT !.run.pyshell = "ended"]
                    ELSE /\ web'[r].run.timeoutId = "cleared"
                         /\ RunSettled(r)'
          /\ web[r].run.kind # "Timeout" /\ web'[r].run.kind = "Timeout" =>
                web[r].run.timeoutId = "armed"
          /\ web[r].run.timeoutId = "cleared" =>
                web'[r].run.timeoutId = "cleared"]_vars

\* C31 witness: the timer rejected a run whose worker then printed nothing
\* more and exited normally with a reply as its last line.
TimedOutThenEnded ==
    \E r \in ReqIds :
        /\ web[r].run.kind = "Timeout"
        /\ web[r].run.promise = "rejected"
        /\ web[r].run.pyshell = "ended"
        /\ web[r].run.outputBuffer # <<>>
        /\ web[r].run.outputBuffer[Len(web[r].run.outputBuffer)] = Parsed(RespX)

\* The lines the worker of request r has printed on its stdout.
Printed(r) == SelectSeq(web[r].run.outputBuffer, LAMBDA o : ~o.string)

\* C32: a worker that printed the one message {"response": "X"} and exits
\* normally before the timer fires resolves the run with "X", whatever
\* stderr lines it wrote and wherever they fall.
RepliedRunResolves ==
    [][\A r \in ReqIds, dev \in BOOLEAN :
          /\ web[r].run.promise = "pending"
          /\ Printed(r) = <<Parsed(RespX)>>
          /\ ShotEnd(r, FALSE, dev)
          => /\ web'[r].run.promise = "resolved"
             /\ web'[r].run.val = "X"]_vars

\* C33: a sweep calls end() on the worker of every old entry and deletes
\* the entry in the same run, without waiting for the process: when it
\* returns no entry of the Map is old, and no process has been marked as
\* exited by it.
SweepDoesNotWait ==
    [][Sweep =>
          /\ \A i \in 1..Len(processes') : ~Old(processes'[i])
          /\ \A i \in 1..Len(processes) :
                Old(processes[i]) =>
                    /\ ~MapHas(processes', processes[i].chatId)
                    /\ procs'[processes[i].process].endCalls =
                           procs[processes[i].process].endCalls + 1
          /\ \A p \in ProcIds : procs'[p].ended = procs[p].ended]_vars

\* C33 witness: a worker whose process still runs was ended and removed
\* while a younger entry stayed in the Map.
SweptWhileRunning ==
    /\ processes # <<>>
    /\ \A i \in 1..Len(processes) : ~Old(processes[i])
    /\ \E p \in ProcIds :
          /\ procs[p].hs = "ok" /\ procs[p].endCalls = 1 /\ ~procs[p].ended
          /\ ~Registered(p)
          /\ ~MapHas(processes, procs[p].chat)
          /\ now > processTimeout

\* C34: a message with a non-empty response and a non-empty error rejects
\* every call pending on its worker with the error; endHandler, given such
\* a message as the last of a pending call's buffer at a normal end, rejects
\* with the error too; no call is ever resolved by such a message.
ErrorBeforeResponse ==
    [][/\ \A d \in DispIds :
             /\ Pending(disp[d]) /\ disp[d].msgH /\ disp[d].proc # 0
             /\ WorkerMessage(BothScope, disp[d].proc, RespErr)
             => Outcome(disp'[d]) = <<"rejected", "WorkerError", "E">>
       /\ \A d \in DispIds :
             Pending(disp[d]) /\ disp[d].endH /\ ~disp[d].errorOccurred =>
                 Outcome(EndHandler([disp[d] EXCEPT !.buf = Append(@, RespErr)],
                                    FALSE))
                     = <<"rejected", "WorkerError", "E">>
       /\ \A d \in DispIds : disp'[d].state # "resolved"]_vars

\* C34 witness: a call was rejected with the error of a message that had
\* both fields.
RejectedDespiteResponse ==
    \E d \in DispIds :
        /\ Outcome(disp[d]) = <<"rejected", "WorkerError", "E">>
        /\ disp[d].sent

\* No timer and no worker exists for request r.
NothingStarted(w) ==
    /\ w.timeoutPromise = "none"
    /\ w.run.timeoutId = "none"
    /\ w.run.pyshell = "none"
    /\ w.run.promise = "none"

\* C35: a request whose message is missing or empty fails with 'Message is
\* required': at the route with the 500 response, the handler not called; in
\* the handler with its promise rejected; in both no timer is armed and no
\* worker spawned, in that step or in any later one.
MessageRequiredFirst ==
    [][\A r \in ReqIds, message \in {Absent, ""} :
          /\ \A dev \in BOOLEAN :
                Post(r, Truthy(message), dev) =>
                    /\ web'[r].error = "Message is required"
                    /\ web'[r].responses = <<Failure(dev)>>
                    /\ web'[r].chatHandler = "none"
                    /\ NothingStarted(web'[r])
          /\ ChatHandler(r, Truthy(message)) =>
                /\ web'[r].chatHandler = "rejected"
                /\ web'[r].run.kind = "Message is required"
                /\ NothingStarted(web'[r])
          /\ "Message is required" \in {web[r].error, web[r].run.kind} =>
                /\ web'[r] = web[r]
                /\ nproc' = nproc]_vars

\* C35 witness: the handler, called without a message, has rejected.
HandlerRefused ==
    \E r \in ReqIds :
        /\ web[r].route = "direct"
        /\ web[r].chatHandler = "rejected"
        /\ web[r].run.kind = "Message is required"
        /\ NothingStarted(web[r])

=============================================================================
